---- MODULE Spec2Model ----
(***************************************************************************)
(* A model of grader-r/entrypoint.py: the entry point of the R grader      *)
(* image.  One run of main() loads the submission document, runs the       *)
(* external harness, loads the harness's results document, merges the      *)
(* pre-supplied test records into it, scores it, attaches images and       *)
(* writes the document back.                                               *)
(*                                                                         *)
(* Python values are modelled as follows.  A dict is a function whose      *)
(* DOMAIN is the set of keys present.  A JSON document read from a file is *)
(* tagged with the Python type json.loads gives it ([kind, value]).  None  *)
(* is the record Null.  A list is a sequence; positions are 1-based here   *)
(* and 0-based in the source.  A float quotient is the reduced fraction    *)
(* <<numerator, denominator>>.                                             *)
(***************************************************************************)
EXTENDS Integers, Sequences, FiniteSets, TLC

VARIABLES
    pc,            \* position of main()
    data_file,     \* /grade/data/data.json
    results_file,  \* /grade/results/results.json
    harness_wrote, \* history: the document run.sh left in results_file
    DATA,          \* main's DATA
    tests_list,    \* main's tests_list
    RESULTS,       \* main's RESULTS
    images,        \* main's images
    tests,         \* main's tests (name -> position)
    idx,           \* number of elements of images the for loop has consumed
    exit_code,     \* the process's exit status, NoExit while it runs
    printed        \* the diagnostics the latest step printed

vars == <<pc, data_file, results_file, harness_wrote, DATA, tests_list, RESULTS,
          images, tests, idx, exit_code, printed>>

----------------------------------------------------------------------------
\* Bounds of the model: the longest _extra_parts, the longest tests list the
\* harness writes, the longest params._images.

MaxExtra == 1
MaxHarness == 2
MaxImages == 2

----------------------------------------------------------------------------
\* Python values.

Null == [none |-> TRUE]
EmptyDict == [k \in {} |-> Null]
Unset == [unset |-> TRUE]
NoExit == -1

Get(d, k, default) == IF k \in DOMAIN d THEN d[k] ELSE default

SetKey(d, k, v) == [c \in DOMAIN d \cup {k} |-> IF c = k THEN v ELSE d[c]]

Pop(d, k) == [c \in DOMAIN d \ {k} |-> d[c]]

JsonDict(d) == [kind |-> "dict", value |-> d]
JsonList(n) == [kind |-> "list", len |-> n]
JsonStr == [kind |-> "str"]

IsDict(v) == v.kind = "dict"
IsList(v) == v.kind = "list"

Opt(k, S) == {EmptyDict} \cup {(k :> v) : v \in S}

SeqsUpTo(S, n) == UNION {[1..k -> S] : k \in 0..n}

----------------------------------------------------------------------------
\* The inputs: the documents and the files of the job directory.  A test
\* record is named and graded <<points, max_points>>.  The elements of
\* params._images are supplied when the for loop reaches them, so the list is
\* kept as its length.  Of the four file names, the first three exist under
\* /grade/images.

Names == {"p1", "main"}
Grades == {<<0, 1>>, <<1, 2>>}

TestRecords == {[name |-> n, points |-> g[1], max_points |-> g[2]] : n \in Names, g \in Grades}

ImagesParams == {JsonStr} \cup {JsonList(n) : n \in 0..MaxImages}

DataDocs ==
    {JsonList(0)} \cup
    {JsonDict(("submitted_answers" :> sa) @@ p) :
        sa \in Opt("_extra_parts", SeqsUpTo(TestRecords, MaxExtra)),
        p \in Opt("params", Opt("_images", ImagesParams))}

HarnessDocs ==
    {JsonList(0)} \cup
    {JsonDict(s @@ t) :
        s \in Opt("succeeded", BOOLEAN),
        t \in Opt("tests", SeqsUpTo(TestRecords, MaxHarness))}

Png == [stem |-> "g", ext |-> ".png"]
Txt == [stem |-> "note", ext |-> ".txt"]
Raw == [stem |-> "raw", ext |-> ""]
Missing == [stem |-> "missing", ext |-> ".png"]

ImageFiles == {Png, Txt, Raw}

ImageSpecs ==
    {l @@ f @@ p :
        l \in Opt("label", {"graph"}),
        f \in Opt("filename", {Png, Txt, Raw, Missing}),
        p \in Opt("part", {"main", "p1", "zz"})}

----------------------------------------------------------------------------
\* encode_image

TypesMap == (".png" :> [type |-> "image", subtype |-> "png"]) @@
            (".txt" :> [type |-> "text", subtype |-> "plain"])

GuessType(fp) == Get(TypesMap, fp.ext, Null)

\* Variant: the check of the MIME type's category left out.
EncodeImageAnyType(fp, label) ==
    IF fp \notin ImageFiles THEN Null
    ELSE IF GuessType(fp) = Null THEN Null
    ELSE [label |-> label, url |-> [mime |-> GuessType(fp), base64 |-> fp.stem]]

EncodeImage(fp, label) ==
    IF fp \notin ImageFiles THEN Null
    ELSE IF GuessType(fp) = Null THEN Null
    ELSE IF GuessType(fp).type # "image" THEN Null
    ELSE [label |-> label, url |-> [mime |-> GuessType(fp), base64 |-> fp.stem]]

EncodeImagePrints(fp) ==
    IF fp \notin ImageFiles THEN <<"does not exist">>
    ELSE IF GuessType(fp) = Null THEN <<"could not determine MIME type">>
    ELSE IF GuessType(fp).type # "image" THEN <<"is not an image">>
    ELSE <<>>

----------------------------------------------------------------------------
\* The expressions of main.

\* Variant: the default of a missing "succeeded" taken to be True.
SucceededDefaultTrue(results) == Get(results, "succeeded", TRUE)

Succeeded(results) == Get(results, "succeeded", FALSE)

ParamsImages(data) == Get(Get(data, "params", EmptyDict), "_images", Null)

\* Variant: the harness's tests put in front of the extra parts.
ExtendFront(list, more) == more \o list

Extend(list, more) == list \o more

RECURSIVE Sum(_, _)
Sum(ts, field) ==
    IF ts = <<>> THEN 0 ELSE ts[1][field] + Sum(Tail(ts), field)

RECURSIVE Gcd(_, _)
Gcd(a, b) == IF b = 0 THEN a ELSE Gcd(b, a % b)

\* Variant: floor division (//) in place of true division (/).
FloorDiv(a, b) == <<a \div b, 1>>

TrueDiv(a, b) == <<a \div Gcd(a, b), b \div Gcd(a, b)>>

RECURSIVE Enumerate(_, _, _)
Enumerate(ts, i, table) ==
    IF i > Len(ts) THEN table
    ELSE Enumerate(ts, i + 1, SetKey(table, ts[i].name, i))

\* Variant: the first record of a name kept (dict.setdefault), not the last.
NameIndexFirst(ts) ==
    [n \in {ts[i].name : i \in DOMAIN ts} |->
        CHOOSE i \in DOMAIN ts : ts[i].name = n /\ \A j \in 1..(i - 1) : ts[j].name # n]

NameIndex(ts) == Enumerate(ts, 1, EmptyDict)

\* Variant: a None image not appended.
AppendImageSkipNone(d, img) ==
    IF img = Null THEN d ELSE SetKey(d, "images", Append(Get(d, "images", <<>>), img))

AppendImage(d, img) == SetKey(d, "images", Append(Get(d, "images", <<>>), img))

GetIsNone(d, k) == k \notin DOMAIN d

\* Variant: only an absent part means the overall results.
IsMainAbsentOnly(image) == GetIsNone(image, "part")

IsMain(image) == GetIsNone(image, "part") \/ image["part"] = "main"

\* Variant: an image of an unknown part left as a None among the overall images.
AttachPlaceholder(results, table, image, img) ==
    IF IsMain(image) THEN AppendImage(results, img)
    ELSE IF image["part"] \notin DOMAIN table THEN AppendImage(results, Null)
    ELSE SetKey(results, "tests",
                [results["tests"] EXCEPT ![table[image["part"]]] = AppendImage(@, img)])

Attach(results, table, image, img) ==
    IF IsMain(image) THEN AppendImage(results, img)
    ELSE IF image["part"] \notin DOMAIN table THEN results
    ELSE SetKey(results, "tests",
                [results["tests"] EXCEPT ![table[image["part"]]] = AppendImage(@, img)])

AttachPrints(table, image) ==
    IF ~IsMain(image) /\ image["part"] \notin DOMAIN table
    THEN <<"Part not found in tests">>
    ELSE <<>>

Body(results, table, image) ==
    IF GetIsNone(image, "label") THEN results
    ELSE IF GetIsNone(image, "filename") THEN results
    ELSE Attach(results, table, image, EncodeImage(image["filename"], image["label"]))

BodyPrints(table, image) ==
    IF GetIsNone(image, "label") THEN <<"does not have a label">>
    ELSE IF GetIsNone(image, "filename") THEN <<"does not have a path">>
    ELSE EncodeImagePrints(image["filename"]) \o AttachPrints(table, image)

----------------------------------------------------------------------------
\* main.  LoadData covers the load of data.json up to the materialisation of
\* params._autograder_files, whose only reader is the harness.  A step's
\* printed is the diagnostics that step wrote (the two unconditional banners
\* are left out; a traceback goes to stderr).  From the merge on, tests_list
\* and RESULTS["tests"] are one list object, so they change together.

Init ==
    /\ pc = "load_data"
    /\ data_file \in DataDocs
    /\ results_file = Unset
    /\ harness_wrote = Unset
    /\ DATA = Unset
    /\ tests_list = Unset
    /\ RESULTS = Unset
    /\ images = Unset
    /\ tests = Unset
    /\ idx = 0
    /\ exit_code = NoExit
    /\ printed = <<>>

Exit(code, message) ==
    /\ pc' = "done"
    /\ exit_code' = code
    /\ printed' = <<message>>

LoadData ==
    /\ pc = "load_data"
    /\ DATA' = IF IsDict(data_file)
               THEN JsonDict(SetKey(data_file.value, "submitted_answers",
                                    Pop(data_file.value["submitted_answers"], "_extra_parts")))
               ELSE data_file
    /\ IF ~IsDict(data_file)
       THEN /\ Exit(1, "DATA is not a dictionary")
            /\ UNCHANGED tests_list
       ELSE /\ tests_list' = Get(data_file.value["submitted_answers"], "_extra_parts", <<>>)
            /\ pc' = "run_harness"
            /\ printed' = <<>>
            /\ UNCHANGED exit_code
    /\ UNCHANGED <<data_file, results_file, harness_wrote, RESULTS, images, tests, idx>>

RunHarness ==
    /\ pc = "run_harness"
    /\ \E doc \in HarnessDocs :
        /\ results_file' = doc
        /\ harness_wrote' = doc
    /\ pc' = "load_results"
    /\ printed' = <<>>
    /\ UNCHANGED <<data_file, DATA, tests_list, RESULTS, images, tests, idx, exit_code>>

LoadResults ==
    /\ pc = "load_results"
    /\ RESULTS' = results_file
    /\ IF ~IsDict(results_file)
       THEN Exit(1, "RESULTS is not a dictionary")
       ELSE /\ pc' = "check_succeeded"
            /\ printed' = <<>>
            /\ UNCHANGED exit_code
    /\ UNCHANGED <<data_file, results_file, harness_wrote, DATA, tests_list, images, tests, idx>>

\* Variant: the merge done ahead of the gate and written on the soft abort.
CheckSucceededAfterMerge ==
    /\ pc = "check_succeeded"
    /\ IF ~Succeeded(RESULTS.value)
       THEN /\ Exit(0, "Job did not succeed")
            /\ tests_list' = Extend(tests_list, Get(RESULTS.value, "tests", <<>>))
            /\ RESULTS' = JsonDict(SetKey(RESULTS.value, "tests", tests_list'))
            /\ results_file' = RESULTS'
       ELSE /\ pc' = "get_images"
            /\ printed' = <<>>
            /\ UNCHANGED <<exit_code, tests_list, RESULTS, results_file>>
    /\ UNCHANGED <<data_file, harness_wrote, DATA, images, tests, idx>>

CheckSucceeded ==
    /\ pc = "check_succeeded"
    /\ IF ~Succeeded(RESULTS.value)
       THEN Exit(0, "Job did not succeed")
       ELSE /\ pc' = "get_images"
            /\ printed' = <<>>
            /\ UNCHANGED exit_code
    /\ UNCHANGED <<data_file, results_file, harness_wrote, DATA, tests_list, RESULTS,
                   images, tests, idx>>

GetImages ==
    /\ pc = "get_images"
    /\ images' = ParamsImages(DATA.value)
    /\ IF ~(images' # Null /\ IsList(images'))
       THEN Exit(1, "params._images is missing or is not a list")
       ELSE /\ pc' = "merge"
            /\ printed' = <<>>
            /\ UNCHANGED exit_code
    /\ UNCHANGED <<data_file, results_file, harness_wrote, DATA, tests_list, RESULTS,
                   tests, idx>>

MergeAndScore ==
    /\ pc = "merge"
    /\ tests_list' = Extend(tests_list, Get(RESULTS.value, "tests", <<>>))
    /\ LET merged == SetKey(RESULTS.value, "tests", tests_list')
           points == Sum(merged["tests"], "points")
           max_points == Sum(merged["tests"], "max_points")
       IN IF max_points = 0
          THEN /\ RESULTS' = JsonDict(merged)
               /\ pc' = "crashed"
               /\ exit_code' = 1
               /\ printed' = <<"Traceback: ZeroDivisionError">>
               /\ UNCHANGED tests
          ELSE /\ RESULTS' = JsonDict(SetKey(merged, "score", TrueDiv(points, max_points)))
               /\ tests' = NameIndex(merged["tests"])
               /\ pc' = "loop"
               /\ printed' = <<>>
               /\ UNCHANGED exit_code
    /\ UNCHANGED <<data_file, results_file, harness_wrote, DATA, images, idx>>

ProcessImage(image) ==
    /\ pc = "loop"
    /\ idx < images.len
    /\ idx' = idx + 1
    /\ printed' = BodyPrints(tests, image)
    /\ RESULTS' = JsonDict(Body(RESULTS.value, tests, image))
    /\ tests_list' = RESULTS'.value["tests"]
    /\ UNCHANGED <<pc, data_file, results_file, harness_wrote, DATA, images, tests, exit_code>>

WriteResults ==
    /\ pc = "loop"
    /\ idx = images.len
    /\ results_file' = RESULTS
    /\ pc' = "done"
    /\ exit_code' = 0
    /\ printed' = <<>>
    /\ UNCHANGED <<data_file, harness_wrote, DATA, tests_list, RESULTS, images, tests, idx>>

Next ==
    \/ LoadData
    \/ RunHarness
    \/ LoadResults
    \/ CheckSucceeded
    \/ GetImages
    \/ MergeAndScore
    \/ \E image \in ImageSpecs : ProcessImage(image)
    \/ WriteResults

Spec == Init /\ [][Next]_vars

----------------------------------------------------------------------------
\* The properties of a run, stated over the inputs it was given.

ExtraParts == Get(data_file.value["submitted_answers"], "_extra_parts", <<>>)
HarnessTests == Get(harness_wrote.value, "tests", <<>>)

HarnessFailed ==
    /\ harness_wrote # Unset
    /\ IsDict(harness_wrote)
    /\ "succeeded" \in DOMAIN harness_wrote.value => harness_wrote.value["succeeded"] = FALSE

SoftAborted == pc = "done" /\ printed = <<"Job did not succeed">>
Written == pc = "done" /\ exit_code = 0 /\ ~SoftAborted
MergeDone == pc \in {"loop", "crashed"} \/ Written

Total(ts, field) ==
    LET count(v) == Cardinality({i \in DOMAIN ts : ts[i][field] = v})
    IN count(1) + 2 * count(2)

IsConcat(ts, first, second) ==
    /\ Len(ts) = Len(first) + Len(second)
    /\ \A i \in DOMAIN first : Pop(ts[i], "images") = first[i]
    /\ \A i \in DOMAIN second : Pop(ts[Len(first) + i], "images") = second[i]

HasLabelAndFilename(image) == "label" \in DOMAIN image /\ "filename" \in DOMAIN image
ForOverall(image) == "part" \notin DOMAIN image \/ image["part"] = "main"
OverallSpecs == {image \in ImageSpecs : HasLabelAndFilename(image) /\ ForOverall(image)}
PartSpecs == {image \in ImageSpecs : HasLabelAndFilename(image) /\ ~ForOverall(image)}
MissingFileSpecs ==
    {image \in ImageSpecs : HasLabelAndFilename(image) /\ image["filename"] \notin ImageFiles}
NonImageSpecs ==
    {image \in ImageSpecs : HasLabelAndFilename(image) /\ "part" \notin DOMAIN image
                              /\ image["filename"] = Txt}
\* The loop is about to consume an element; the results after it consumed image.
AboutToIterate == pc = "loop" /\ idx < images.len
After(image) == Body(RESULTS.value, tests, image)

PositionsOf(ts, name) == {i \in DOMAIN ts : ts[i].name = name}
LastPosition(ts, name) ==
    CHOOSE j \in PositionsOf(ts, name) : \A i \in PositionsOf(ts, name) : i <= j
ImagesOf(d) == IF "images" \in DOMAIN d THEN d["images"] ELSE <<>>
NoImages(results) ==
    /\ "images" \notin DOMAIN results
    /\ "tests" \in DOMAIN results => \A i \in DOMAIN results["tests"] :
                                        "images" \notin DOMAIN results["tests"][i]

\* C1: once the merge has run, the tests of the results document are the extra
\* parts followed by the harness's tests, record for record, and as many as the
\* two together; the document written at the end holds the same sequence.
C1_MergedTests ==
    /\ MergeDone => IsConcat(RESULTS.value["tests"], ExtraParts, HarnessTests)
    /\ Written => IsConcat(results_file.value["tests"], ExtraParts, HarnessTests)

C1_Witness ==
    /\ Written
    /\ Len(ExtraParts) = 1 /\ Len(HarnessTests) = 2
    /\ HarnessTests[1] # HarnessTests[2] /\ ExtraParts[1] # HarnessTests[1]

\* C2: once the merge has run with a non-zero sum of max_points, the score of
\* the results document is the sum of points of all extra parts and harness
\* tests over the sum of their max_points, each record counted once.
C2_Score ==
    LET points == Total(ExtraParts, "points") + Total(HarnessTests, "points")
        max_points == Total(ExtraParts, "max_points") + Total(HarnessTests, "max_points")
        IsQuotient(d) == /\ "score" \in DOMAIN d
                         /\ d["score"][2] # 0
                         /\ d["score"][1] * max_points = d["score"][2] * points
    IN /\ (MergeDone /\ max_points # 0) => IsQuotient(RESULTS.value)
       /\ (Written /\ max_points # 0) => IsQuotient(results_file.value)

C2_Witness ==
    /\ Written
    /\ Len(ExtraParts) = 1 /\ Len(HarnessTests) = 2
    /\ results_file.value["score"] = <<2, 5>>

\* C3: when the harness's document has succeeded false or absent, the run goes
\* no further than the gate, ends with exit status 0, never reads
\* params._images, and no images key appears in the results or any test.
C3_SoftAbort ==
    HarnessFailed =>
        /\ pc \in {"load_results", "check_succeeded", "done"}
        /\ exit_code \in {NoExit, 0}
        /\ pc = "done" => exit_code = 0
        /\ images = Unset
        /\ NoImages(results_file.value)
        /\ RESULTS # Unset => NoImages(RESULTS.value)

C3_Witness ==
    /\ HarnessFailed
    /\ pc = "done" /\ exit_code = 0
    /\ "succeeded" \notin DOMAIN harness_wrote.value
    /\ "params" \in DOMAIN data_file.value
    /\ "_images" \notin DOMAIN data_file.value["params"]

\* C4 as claimed: after a soft abort the results document holds the merged
\* tests and the score computed from them.
C4_MergedOnSoftAbort ==
    SoftAborted =>
        /\ IsConcat(results_file.value["tests"], ExtraParts, HarnessTests)
        /\ "score" \in DOMAIN results_file.value

\* C4 as amended: the gate precedes the merge.  After a soft abort the results
\* document, in memory and on disk, is what the harness wrote, without a score,
\* and the extra parts are still apart in tests_list.
C4_UntouchedOnSoftAbort ==
    SoftAborted =>
        /\ results_file = harness_wrote
        /\ RESULTS = harness_wrote
        /\ "score" \notin DOMAIN results_file.value
        /\ tests_list = ExtraParts
        /\ exit_code = 0

C4_Witness ==
    /\ SoftAborted
    /\ Len(ExtraParts) = 1 /\ Len(HarnessTests) = 2
    /\ "succeeded" \in DOMAIN harness_wrote.value

\* C5: the lookup resolves every name to its last position; an iteration for
\* an image whose part is a test's name appends one entry to the images of the
\* record at that last position and leaves every other record, the number of
\* records and the overall images as they were.
C5_LastOccurrence ==
    AboutToIterate =>
        \A image \in PartSpecs :
            PositionsOf(RESULTS.value["tests"], image["part"]) # {} =>
                LET old == RESULTS.value["tests"]
                    new == After(image)["tests"]
                    j == LastPosition(old, image["part"])
                IN /\ tests[image["part"]] = j
                   /\ Len(new) = Len(old)
                   /\ Len(ImagesOf(new[j])) = Len(ImagesOf(old[j])) + 1
                   /\ SubSeq(ImagesOf(new[j]), 1, Len(ImagesOf(old[j]))) = ImagesOf(old[j])
                   /\ \A i \in DOMAIN old : i # j => new[i] = old[i]
                   /\ ImagesOf(After(image)) = ImagesOf(RESULTS.value)

C5_Witness ==
    /\ pc = "loop"
    /\ \E i, j \in DOMAIN RESULTS.value["tests"] :
        /\ i < j
        /\ RESULTS.value["tests"][i].name = RESULTS.value["tests"][j].name
        /\ tests[RESULTS.value["tests"][j].name] = j
        /\ "images" \notin DOMAIN RESULTS.value["tests"][i]
        /\ "images" \in DOMAIN RESULTS.value["tests"][j]

\* C6: an iteration for an image with a label and a filename whose part is
\* absent or "main" appends exactly one entry to the overall images and leaves
\* the tests, a test named "main" among them, as they were.
C6_OverallOnly ==
    AboutToIterate =>
        \A image \in OverallSpecs :
            /\ "images" \in DOMAIN After(image)
            /\ Len(After(image)["images"]) = Len(ImagesOf(RESULTS.value)) + 1
            /\ SubSeq(After(image)["images"], 1, Len(ImagesOf(RESULTS.value)))
                 = ImagesOf(RESULTS.value)
            /\ After(image)["tests"] = RESULTS.value["tests"]

C6_Witness ==
    /\ pc = "loop"
    /\ Len(ImagesOf(RESULTS.value)) = 2
    /\ \E i \in DOMAIN RESULTS.value["tests"] : RESULTS.value["tests"][i].name = "main"
    /\ \A i \in DOMAIN RESULTS.value["tests"] : "images" \notin DOMAIN RESULTS.value["tests"][i]

\* C7: an iteration for an image with a label and a filename whose part is
\* neither absent nor "main" nor the name of a test leaves the results document
\* as it was; the run that has just reported such a part is still in the loop,
\* where the elements left are consumed before the results are written.
C7_UnknownPartDropped ==
    /\ AboutToIterate =>
        \A image \in PartSpecs :
            PositionsOf(RESULTS.value["tests"], image["part"]) = {} =>
                After(image) = RESULTS.value
    /\ (printed # <<>> /\ printed[Len(printed)] = "Part not found in tests") =>
        /\ pc = "loop"
        /\ exit_code = NoExit
        /\ idx <= images.len
        /\ ENABLED WriteResults <=> idx = images.len

C7_Witness ==
    /\ pc = "loop"
    /\ idx = 1 /\ images.len = 2
    /\ printed # <<>> /\ printed[Len(printed)] = "Part not found in tests"
    /\ NoImages(RESULTS.value)
    /\ RESULTS.value["tests"] # <<>>

\* C8: an iteration for an image with a label and a filename whose file does
\* not exist, and whose target is the overall results or a test, appends None
\* at the end of that target's images, behind the entries already there.
C8_MissingFileIsNone ==
    AboutToIterate =>
        \A image \in MissingFileSpecs :
            LET old == RESULTS.value["tests"]
                new == After(image)["tests"]
            IN IF ForOverall(image)
               THEN ImagesOf(After(image)) = Append(ImagesOf(RESULTS.value), Null)
               ELSE PositionsOf(old, image["part"]) # {} =>
                      ImagesOf(new[LastPosition(old, image["part"])])
                        = Append(ImagesOf(old[LastPosition(old, image["part"])]), Null)

C8_Witness ==
    /\ pc = "loop"
    /\ printed = <<"does not exist">>
    /\ Len(ImagesOf(RESULTS.value)) = 2
    /\ RESULTS.value["images"][1] # Null
    /\ RESULTS.value["images"][2] = Null

\* C9 as claimed: an iteration for an image with a label, a filename and no
\* part, whose file exists with a MIME type outside image/*, adds no entry.
C9_NonImageSkipped ==
    AboutToIterate => \A image \in NonImageSpecs : After(image) = RESULTS.value

\* C9 as amended: that iteration appends None to the overall images and leaves
\* the tests as they were.
C9_NonImageIsNone ==
    AboutToIterate =>
        \A image \in NonImageSpecs :
            /\ ImagesOf(After(image)) = Append(ImagesOf(RESULTS.value), Null)
            /\ After(image)["tests"] = RESULTS.value["tests"]

C9_Witness ==
    /\ pc = "loop"
    /\ printed = <<"is not an image">>
    /\ ImagesOf(RESULTS.value) = <<Null>>
    /\ \A i \in DOMAIN RESULTS.value["tests"] : "images" \notin DOMAIN RESULTS.value["tests"][i]

\* C10: a run that has ended has ended at a sys.exit of main: with status 0
\* after writing the results or at the soft abort, or with status 1 at one of
\* the three validation failures.
C10_DefinedExits ==
    pc \in {"done", "crashed"} =>
        \/ Written
        \/ SoftAborted /\ exit_code = 0
        \/ /\ pc = "done"
           /\ exit_code = 1
           /\ printed \in {<<"DATA is not a dictionary">>,
                           <<"RESULTS is not a dictionary">>,
                           <<"params._images is missing or is not a list">>}

====
